---- MODULE Spec2Model ----
(***************************************************************************)
(* Firmware Metadata Block: the scan loop and field decoding of            *)
(* ESP32common/scripts/extract_firmware_metadata.py, run over byte         *)
(* buffers drawn from a bounded family of firmware images.                 *)
(*                                                                         *)
(* A buffer is a sequence of bytes (0..255).  Python indexes from 0, TLA+  *)
(* sequences from 1: At(d, k) is Python's d[k].                            *)
(***************************************************************************)
EXTENDS Integers, Sequences, FiniteSets, TLC

VARIABLES
    data,        \* the bytes read from the file (line 24)
    pc,          \* "scan" (in the for loop), "done" (returned), "raised"
    i,           \* the loop variable of line 29
    result,      \* "none" while running, "found" (True), "notfound" (False)
    offset,      \* the offset printed on line 35; -1 until a block is found
    fields,      \* the values decoded on lines 38-43; NoFields until then
    maxRead,     \* the largest byte index the run has asked for; -1 if none
    prev,        \* outcome of the run before the image was patched, or NoRun
    \* version_firmware.py, rename_firmware:
    build_flags, \* env.Flatten(env.get("BUILD_FLAGS", [])), a list of strings
    target,      \* str(target[0]), the path of the built file
    pioenv,      \* env's PIOENV entry: [some |-> BOOLEAN, str |-> string]
    files,       \* the file system: path |-> content
    version,     \* the dict of get_version_from_flags
    flagIdx,     \* position of the loop of line 27 in build_flags, from 1
    copied,      \* the path shutil.copy2 has written, or NoPath
    rpc,         \* "off", "flags", "check", "done"
    \* timezonetest.py, generate_posix_tz:
    tz_data,     \* the dict passed in: timezone, abbreviation, utc_offset
    posix,       \* the local variable posix
    base,        \* posix as printed on line 149 ("Base POSIX string")
    tpc          \* "off", "base", "dst", "done"

scanVars == <<data, pc, i, result, offset, fields, maxRead, prev>>
renameVars == <<build_flags, target, pioenv, files, version, flagIdx, copied, rpc>>
tzVars == <<tz_data, posix, base, tpc>>

vars == <<scanVars, renameVars, tzVars>>

(***************************************************************************)
(* Program constants                                                       *)
(***************************************************************************)
\* 0x464D5441 and 0x454E4446.  TLC's integers are 32-bit signed, and a word
\* read from arbitrary bytes can reach 2^32-1, so a 32-bit word is kept as
\* the pair <<low 16 bits, high 16 bits>>.
MAGIC_START == <<21569, 17997>>
MAGIC_END == <<17478, 17742>>

BLOCK_SIZE == 128
END_MARKER_AT == 124
ENV_NAME_AT == 4
ENV_NAME_LEN == 32
DEVICE_TYPE_AT == 36
DEVICE_TYPE_LEN == 16
VERSION_MAJOR_AT == 52
VERSION_MINOR_AT == 53
VERSION_PATCH_AT == 54
BUILD_DATE_AT == 56
BUILD_DATE_LEN == 48

\* The bytes of a block no line of the script reads: the byte between
\* version_patch and build_date, and those between build_date and the end
\* marker (the reserved fields of the layout).
RESERVED_BYTE_AT == VERSION_PATCH_AT + 1
RESERVED_AT == BUILD_DATE_AT + BUILD_DATE_LEN
RESERVED_LEN == END_MARKER_AT - RESERVED_AT

(***************************************************************************)
(* Python primitives used by the script                                    *)
(***************************************************************************)
Min(a, b) == IF a < b THEN a ELSE b
Max(a, b) == IF a > b THEN a ELSE b

At(d, k) == d[k + 1]

\* d[a:b] for 0 <= a <= b: a slice is clamped to the buffer, it never raises.
Slice(d, a, b) == SubSeq(d, a + 1, Min(b, Len(d)))

\* struct.unpack('<I', s)[0]: raises struct.error unless s has 4 bytes.
UnpackRaises(s) == Len(s) # 4
Unpack(s) == <<s[1] + 256 * s[2], s[3] + 256 * s[4]>>

\* bytes.decode('utf-8', errors='ignore'): the code points of the well-formed
\* sequences, in order; a byte that starts no well-formed sequence is dropped
\* and decoding resumes at the next byte.
IsCont(c) == c >= 128 /\ c <= 191

RECURSIVE Utf8DecodeIgnore(_)
Utf8DecodeIgnore(b) ==
    IF b = <<>> THEN <<>>
    ELSE LET c == b[1]
             n == Len(b)
             rest(k) == Utf8DecodeIgnore(SubSeq(b, k + 1, n))
         IN  IF c < 128 THEN <<c>> \o rest(1)
             ELSE IF c >= 194 /\ c <= 223 /\ n >= 2 /\ IsCont(b[2])
                  THEN <<(c - 192) * 64 + (b[2] - 128)>> \o rest(2)
             ELSE IF c >= 224 /\ c <= 239 /\ n >= 3
                     /\ IsCont(b[2]) /\ IsCont(b[3])
                     /\ (c = 224 => b[2] >= 160)
                     /\ (c = 237 => b[2] <= 159)
                  THEN <<(c - 224) * 4096 + (b[2] - 128) * 64 + (b[3] - 128)>>
                       \o rest(3)
             ELSE IF c >= 240 /\ c <= 244 /\ n >= 4
                     /\ IsCont(b[2]) /\ IsCont(b[3]) /\ IsCont(b[4])
                     /\ (c = 240 => b[2] >= 144)
                     /\ (c = 244 => b[2] <= 143)
                  THEN <<(c - 240) * 262144 + (b[2] - 128) * 4096
                         + (b[3] - 128) * 64 + (b[4] - 128)>> \o rest(4)
             ELSE rest(1)

\* The loop with its capacity test off by one: while end <= offset + max_len.
RECURSIVE CstringLoopInclusive(_, _, _, _)
CstringLoopInclusive(d, off, max_len, end) ==
    IF end <= off + max_len
    THEN IF end >= Len(d) THEN [end |-> end, raised |-> TRUE, hi |-> end]
         ELSE IF At(d, end) # 0
              THEN CstringLoopInclusive(d, off, max_len, end + 1)
         ELSE [end |-> end, raised |-> FALSE, hi |-> end]
    ELSE [end |-> end, raised |-> FALSE, hi |-> end - 1]

\* read_cstring, lines 16-18: the loop that advances `end`.  data[end] with
\* end >= len(data) raises IndexError.  hi is the largest index the loop
\* asked for (off - 1 when it asked for none).
RECURSIVE CstringLoop(_, _, _, _)
CstringLoop(d, off, max_len, end) ==
    IF end < off + max_len
    THEN IF end >= Len(d) THEN [end |-> end, raised |-> TRUE, hi |-> end]
         ELSE IF At(d, end) # 0 THEN CstringLoop(d, off, max_len, end + 1)
         ELSE [end |-> end, raised |-> FALSE, hi |-> end]
    ELSE [end |-> end, raised |-> FALSE, hi |-> end - 1]

\* read_cstring, lines 14-19.
read_cstring(d, off, max_len) ==
    LET r == CstringLoop(d, off, max_len, off)
    IN  [raised |-> r.raised,
         text   |-> IF r.raised THEN <<>>
                    ELSE Utf8DecodeIgnore(Slice(d, off, r.end)),
         hi     |-> r.hi]

\* range(len(data)): every offset of the buffer is scanned.
ScanStopLen(n) == n

\* range(len(data) - 124): the offset of the end marker for the block size.
ScanStopShort(n) == n - END_MARKER_AT

\* range(len(data) - 128), line 29: the loop runs for 0 <= i < ScanStop.
ScanStop(n) == n - BLOCK_SIZE

\* Lines 30-31: "raise" (struct.error), "hit" or "miss".
StartCheck(d, k) ==
    LET s == Slice(d, k, k + 4)
    IN  IF UnpackRaises(s) THEN "raise"
        ELSE IF Unpack(s) = MAGIC_START THEN "hit" ELSE "miss"

\* The end marker looked for after the block, at data[k+128:k+132].
EndCheckAfterBlock(d, k) ==
    LET s == Slice(d, k + BLOCK_SIZE, k + BLOCK_SIZE + 4)
    IN  IF UnpackRaises(s) THEN "raise"
        ELSE IF Unpack(s) = MAGIC_END THEN "hit" ELSE "miss"

\* Lines 33-34.
EndCheck(d, k) ==
    LET s == Slice(d, k + END_MARKER_AT, k + BLOCK_SIZE)
    IN  IF UnpackRaises(s) THEN "raise"
        ELSE IF Unpack(s) = MAGIC_END THEN "hit" ELSE "miss"

\* data[k], lines 40-42: IndexError when k >= len(data); indexing bytes
\* yields the unsigned value 0..255.
ByteRaises(d, k) == k >= Len(d)

VersionByteSigned(d, k) == IF At(d, k) >= 128 THEN At(d, k) - 256 ELSE At(d, k)

VersionByte(d, k) == At(d, k)

\* Lines 38-43: the six reads of a block at offset k.
DecodeBlock(d, k) ==
    LET env  == read_cstring(d, k + ENV_NAME_AT, ENV_NAME_LEN)
        dev  == read_cstring(d, k + DEVICE_TYPE_AT, DEVICE_TYPE_LEN)
        date == read_cstring(d, k + BUILD_DATE_AT, BUILD_DATE_LEN)
        verRaises == ByteRaises(d, k + VERSION_PATCH_AT)
    IN  [raised |-> env.raised \/ dev.raised \/ verRaises \/ date.raised,
         hi     |-> Max(Max(env.hi, dev.hi), Max(k + VERSION_PATCH_AT, date.hi)),
         fields |-> IF env.raised \/ dev.raised \/ verRaises \/ date.raised
                    THEN <<>>
                    ELSE [env_name      |-> env.text,
                          device_type   |-> dev.text,
                          version_major |-> VersionByte(d, k + VERSION_MAJOR_AT),
                          version_minor |-> VersionByte(d, k + VERSION_MINOR_AT),
                          version_patch |-> VersionByte(d, k + VERSION_PATCH_AT),
                          build_date    |-> date.text]]

NoFields == <<>>
NoRun == <<>>

(***************************************************************************)
(* The producer of a block (the firmware build; its code is not part of    *)
(* the scripts): the layout and Encode of the specification, sections 3    *)
(* and 4.1.  Text is a sequence of code points.                            *)
(***************************************************************************)
Rep(c, n) == [j \in 1..n |-> c]

\* The little-endian bytes of a 32-bit word kept as <<low, high>>.
Pack(w) == <<w[1] % 256, w[1] \div 256, w[2] % 256, w[2] \div 256>>

RECURSIVE Utf8Encode(_)
Utf8Encode(t) ==
    IF t = <<>> THEN <<>>
    ELSE LET c == t[1]
             rest == Utf8Encode(Tail(t))
         IN  IF c < 128 THEN <<c>> \o rest
             ELSE IF c < 2048
                  THEN <<192 + (c \div 64), 128 + (c % 64)>> \o rest
             ELSE IF c < 65536
                  THEN <<224 + (c \div 4096), 128 + ((c \div 64) % 64),
                         128 + (c % 64)>> \o rest
             ELSE <<240 + (c \div 262144), 128 + ((c \div 4096) % 64),
                    128 + ((c \div 64) % 64), 128 + (c % 64)>> \o rest

\* A text slot of `cap` bytes: at most cap-1 bytes of text, zero-padded.
EncodeText(t, cap) ==
    LET b == Utf8Encode(t)
        n == Min(Len(b), cap - 1)
    IN  [j \in 1..cap |-> IF j <= n THEN b[j] ELSE 0]

Encode(x) ==
    Pack(MAGIC_START)
    \o EncodeText(x.env_name, ENV_NAME_LEN)
    \o EncodeText(x.device_type, DEVICE_TYPE_LEN)
    \o <<x.version_major, x.version_minor, x.version_patch, 0>>
    \o EncodeText(x.build_date, BUILD_DATE_LEN)
    \o Rep(0, RESERVED_LEN)
    \o Pack(MAGIC_END)

(***************************************************************************)
(* The images the scan is run over                                         *)
(***************************************************************************)
MaxLead == 2      \* the first piece is placed at an offset 0..MaxLead
MaxTail == 1      \* up to MaxTail bytes follow the last piece

\* "factory", and a 31-byte name: U+00E9 (2 bytes) and 29 times "x"
Names == {<<102, 97, 99, 116, 111, 114, 121>>, <<233>> \o Rep(120, 29)}
\* "node-a" and the empty text
Types == {<<110, 111, 100, 101, 45, 97>>, <<>>}
Versions == {<<1, 4, 2>>, <<0, 0, 0>>, <<255, 255, 255>>}
\* "01-01-2024 00:00:00", and a 47-byte date
Dates == {<<48, 49, 45, 48, 49, 45, 50, 48, 50, 52, 32,
            48, 48, 58, 48, 48, 58, 48, 48>>,
          Rep(57, 47)}

Records ==
    {[env_name |-> n, device_type |-> t, version_major |-> v[1],
      version_minor |-> v[2], version_patch |-> v[3], build_date |-> b] :
        n \in Names, t \in Types, v \in Versions, b \in Dates}

ExampleRecord ==
    [env_name |-> <<102, 97, 99, 116, 111, 114, 121>>,
     device_type |-> <<110, 111, 100, 101, 45, 97>>,
     version_major |-> 1, version_minor |-> 4, version_patch |-> 2,
     build_date |-> <<48, 49, 45, 48, 49, 45, 50, 48, 50, 52, 32,
                      48, 48, 58, 48, 48, 58, 48, 48>>]

\* Put(d, k, p): d with the bytes of p written at offsets k .. k+len(p)-1.
Put(d, k, p) ==
    [j \in 1..Len(d) |->
        IF j - 1 >= k /\ j - 1 < k + Len(p) THEN p[j - k] ELSE d[j]]

\* A block none of whose slots holds a zero byte, reserved bytes non-zero.
FullBlock == Pack(MAGIC_START) \o Rep(65, 120) \o Pack(MAGIC_END)

\* A block with bytes after the terminators, bytes that are no UTF-8 text,
\* an empty device_type slot and non-zero reserved bytes.
JunkBlock ==
    Pack(MAGIC_START)
    \o <<255, 65, 0, 66>> \o Rep(67, 28)
    \o <<0, 68>> \o Rep(69, 14)
    \o <<0, 255, 7, 153>>
    \o <<195, 169, 195, 70, 0, 71>> \o Rep(72, 42)
    \o Rep(238, 20)
    \o Pack(MAGIC_END)

\* The example block with the last byte of the end marker wrong.
BadEndBlock == Put(Encode(ExampleRecord), BLOCK_SIZE - 1, <<0>>)

\* The example block whose last reserved word holds the end marker: written
\* 4 bytes after a start marker it closes a second, overlapping candidate.
NestBlock == Put(Encode(ExampleRecord), END_MARKER_AT - 4, Pack(MAGIC_END))

FirstPieces ==
    {Encode(x) : x \in Records}
    \cup {FullBlock, JunkBlock, BadEndBlock, Pack(MAGIC_START), <<>>}

SecondPieces == {Encode(ExampleRecord), FullBlock, BadEndBlock, NestBlock}

\* Distance from the first piece to the second: 0 is "no second piece".
Gaps == {0, 4, 20, 128}

FillBytes == {0, 65}

Image(lead, p1, gap, p2, tail, fill) ==
    LET q2 == IF gap = 0 THEN <<>> ELSE p2
        end == Max(lead + Len(p1), lead + gap + Len(q2))
        n == Max(0, end + tail)
        whole == Put(Put(Rep(fill, Max(n, end)), lead, p1), lead + gap, q2)
    IN  SubSeq(whole, 1, n)

Images ==
    {Image(lead, p1, gap, p2, tail, fill) :
        lead \in 0..MaxLead, p1 \in FirstPieces, gap \in Gaps,
        p2 \in SecondPieces, tail \in (-1)..MaxTail, fill \in FillBytes}

\* What the variables of a script hold while it is not running.
NoPath == <<>>
NoVersion == <<>>
NoData ==
    [none |-> TRUE, has |-> {}, timezone |-> <<>>, abbreviation |-> <<>>,
     utc_offset |-> 0]

RenameOff ==
    /\ build_flags = <<>>
    /\ target = NoPath
    /\ pioenv = [some |-> FALSE, str |-> <<>>]
    /\ files = <<>>
    /\ version = NoVersion
    /\ flagIdx = 1
    /\ copied = NoPath
    /\ rpc = "off"

TzOff ==
    /\ tz_data = NoData
    /\ posix = <<>>
    /\ base = <<>>
    /\ tpc = "off"

ScanOff ==
    /\ data = <<>>
    /\ pc = "off"
    /\ i = 0
    /\ result = "none"
    /\ offset = -1
    /\ fields = NoFields
    /\ maxRead = -1
    /\ prev = NoRun

(***************************************************************************)
(* extract_metadata as a state machine                                     *)
(***************************************************************************)
Start(d) ==
    /\ data = d
    /\ pc = "scan"
    /\ i = 0
    /\ result = "none"
    /\ offset = -1
    /\ fields = NoFields
    /\ maxRead = -1

Init == (\E d \in Images : Start(d)) /\ prev = NoRun /\ RenameOff /\ TzOff

\* Line 29 yields the next i; lines 30-31: the start marker is not at i.
ScanMiss ==
    /\ pc = "scan"
    /\ i < ScanStop(Len(data))
    /\ StartCheck(data, i) # "hit"
    /\ maxRead' = Max(maxRead, i + 3)
    /\ IF StartCheck(data, i) = "raise"
       THEN pc' = "raised" /\ i' = i
       ELSE pc' = "scan" /\ i' = i + 1
    /\ UNCHANGED <<data, result, offset, fields, prev, renameVars, tzVars>>

\* Lines 30-34: the start marker is at i, the end marker is not at i+124.
ScanFalseStart ==
    /\ pc = "scan"
    /\ i < ScanStop(Len(data))
    /\ StartCheck(data, i) = "hit"
    /\ EndCheck(data, i) # "hit"
    /\ maxRead' = Max(maxRead, i + BLOCK_SIZE - 1)
    /\ IF EndCheck(data, i) = "raise"
       THEN pc' = "raised" /\ i' = i
       ELSE pc' = "scan" /\ i' = i + 1
    /\ UNCHANGED <<data, result, offset, fields, prev, renameVars, tzVars>>

\* Lines 30-35: both markers match at i.
ScanMatch ==
    /\ pc = "scan"
    /\ i < ScanStop(Len(data))
    /\ StartCheck(data, i) = "hit"
    /\ EndCheck(data, i) = "hit"
    /\ maxRead' = Max(maxRead, i + BLOCK_SIZE - 1)
    /\ offset' = i
    /\ pc' = "decode"
    /\ UNCHANGED <<data, i, result, fields, prev, renameVars, tzVars>>

\* Lines 38-51: decode the fields of the block at i and return True.
Decode ==
    /\ pc = "decode"
    /\ maxRead' = Max(maxRead, DecodeBlock(data, i).hi)
    /\ pc' = IF DecodeBlock(data, i).raised THEN "raised" ELSE "done"
    /\ result' = IF DecodeBlock(data, i).raised THEN result ELSE "found"
    /\ fields' = IF DecodeBlock(data, i).raised THEN fields
                  ELSE DecodeBlock(data, i).fields
    /\ UNCHANGED <<data, i, offset, prev, renameVars, tzVars>>

\* Lines 53-54: the loop is exhausted; return False.
ScanExhausted ==
    /\ pc = "scan"
    /\ i >= ScanStop(Len(data))
    /\ pc' = "done"
    /\ result' = "notfound"
    /\ UNCHANGED <<data, i, offset, fields, maxRead, prev, renameVars, tzVars>>

Next == ScanMiss \/ ScanFalseStart \/ ScanMatch \/ Decode \/ ScanExhausted

Spec == Init /\ [][Next]_vars

TypeOK ==
    /\ pc \in {"scan", "decode", "done", "raised"}
    /\ result \in {"none", "found", "notfound"}
    /\ \A j \in 1..Len(data) : data[j] \in 0..255

(***************************************************************************)
(* The image patched in its reserved bytes and scanned again               *)
(***************************************************************************)
\* A patch <<p, bytes>> writes `bytes` at block offset p of the located
\* block; every byte written lies at block offset 55 or 104..123.
Patches ==
    {<<RESERVED_BYTE_AT, <<b>>>> : b \in {0, 69}}
    \cup {<<p, w>> : p \in {RESERVED_AT, RESERVED_AT + RESERVED_LEN - 4},
                     w \in {Pack(MAGIC_END), Rep(0, 4), Rep(65, 4)}}

PatchImages ==
    {Image(lead, p1, gap, p2, tail, fill) :
        lead \in 0..MaxLead,
        p1 \in {Encode(ExampleRecord), FullBlock, JunkBlock, Pack(MAGIC_START)},
        gap \in {0, 4, 20}, p2 \in SecondPieces,
        tail \in 1..(MaxTail + 1), fill \in FillBytes}

InitPatch ==
    (\E d \in PatchImages : Start(d)) /\ prev = NoRun /\ RenameOff /\ TzOff

\* The script is run on a copy of the image just scanned that differs from
\* it only in reserved bytes of the block that run located.
Rescan ==
    /\ pc = "done"
    /\ result = "found"
    /\ prev = NoRun
    /\ \E patch \in Patches :
          /\ Put(data, offset + patch[1], patch[2]) # data
          /\ data' = Put(data, offset + patch[1], patch[2])
    /\ pc' = "scan"
    /\ i' = 0
    /\ result' = "none"
    /\ offset' = -1
    /\ fields' = NoFields
    /\ maxRead' = -1
    /\ prev' = [result |-> result, offset |-> offset, fields |-> fields]
    /\ UNCHANGED <<renameVars, tzVars>>

NextPatch == Next \/ Rescan

SpecPatch == InitPatch /\ [][NextPatch]_vars

(***************************************************************************)
(* What the claims speak of, stated over the buffer alone                  *)
(***************************************************************************)
EncodedRecord == [x \in Records |-> Encode(x)]

\* The 4 bytes at offset k are the little-endian bytes of word w.
WordAt(d, k, w) ==
    /\ k >= 0
    /\ k + 4 <= Len(d)
    /\ <<At(d, k), At(d, k + 1), At(d, k + 2), At(d, k + 3)>> = Pack(w)

\* The candidate offsets [0, N-128] and those that pass both marker checks.
Candidates(d) == 0..(Len(d) - BLOCK_SIZE)

ValidAt(d, k) == WordAt(d, k, MAGIC_START) /\ WordAt(d, k + END_MARKER_AT, MAGIC_END)

ValidOffsets(d) == {k \in Candidates(d) : ValidAt(d, k)}

FalseStarts(d) ==
    {k \in Candidates(d) : WordAt(d, k, MAGIC_START) /\ ~ValidAt(d, k)}

Lowest(S) == CHOOSE m \in S : \A x \in S : m <= x

\* The maximal run of non-zero bytes from offset off, cut at cap bytes.
RunLen(d, off, cap) ==
    CHOOSE n \in 0..cap :
        /\ \A j \in 0..(n - 1) : At(d, off + j) # 0
        /\ n = cap \/ At(d, off + n) = 0

RunBytes(d, off, cap) == [j \in 1..RunLen(d, off, cap) |-> At(d, off + j - 1)]

\* The fields of the block at offset k, read off the layout table.
BlockFields(d, k) ==
    [env_name      |-> Utf8DecodeIgnore(RunBytes(d, k + ENV_NAME_AT, ENV_NAME_LEN)),
     device_type   |-> Utf8DecodeIgnore(RunBytes(d, k + DEVICE_TYPE_AT, DEVICE_TYPE_LEN)),
     version_major |-> At(d, k + VERSION_MAJOR_AT),
     version_minor |-> At(d, k + VERSION_MINOR_AT),
     version_patch |-> At(d, k + VERSION_PATCH_AT),
     build_date    |-> Utf8DecodeIgnore(RunBytes(d, k + BUILD_DATE_AT, BUILD_DATE_LEN))]

(***************************************************************************)
(* The claims                                                              *)
(***************************************************************************)
\* C1: when the run has returned, it reports the smallest offset of
\* [0, N-128] (N-128 included) that passes both marker checks, and reports
\* "not found" only if no offset of [0, N-128] passes them.
C1_LowestCandidateReported ==
    pc = "done" =>
        IF ValidOffsets(data) = {}
        THEN result = "notfound"
        ELSE result = "found" /\ offset = Lowest(ValidOffsets(data))

\* C2: over a buffer shorter than 128 bytes the run examines no offset and
\* reads no byte, whatever the content, and returns "not found".
C2_ShortBufferNotFound ==
    Len(data) < BLOCK_SIZE =>
        /\ pc \in {"scan", "done"}
        /\ i = 0
        /\ maxRead = -1
        /\ offset = -1
        /\ pc = "done" => result = "notfound"

\* A 127-byte buffer that begins with the start marker has been scanned.
C2_Witness ==
    /\ pc = "done"
    /\ Len(data) = BLOCK_SIZE - 1
    /\ WordAt(data, 0, MAGIC_START)

\* C3: when two or more offsets pass both marker checks, the run reports
\* the lowest of them and the fields it decodes are those of the block at
\* that offset.
C3_LowestOfTwoWins ==
    (pc = "done" /\ Cardinality(ValidOffsets(data)) >= 2) =>
        /\ result = "found"
        /\ offset = Lowest(ValidOffsets(data))
        /\ fields = BlockFields(data, Lowest(ValidOffsets(data)))

\* Two blocks with different fields pass the checks and the run is over.
C3_Witness ==
    /\ pc = "done"
    /\ \E k1, k2 \in ValidOffsets(data) :
          /\ k1 < k2
          /\ BlockFields(data, k1) # BlockFields(data, k2)

\* C4: an offset that holds the start marker but not the end marker 124
\* bytes on is never reported, and the scan goes on past it: a block that
\* passes both checks at a later candidate offset is found.
C4_FalseStartSkipped ==
    pc = "done" =>
        \A k \in FalseStarts(data) :
            /\ offset # k
            /\ (\E j \in ValidOffsets(data) : j > k) => result = "found"

\* C5: a buffer that holds the encoding of a record x at offset k, and the
\* start marker nowhere else, yields offset k and the fields of x.
C5_RoundTrip ==
    pc = "done" =>
        \A k \in Candidates(data) :
            (/\ WordAt(data, k, MAGIC_START)
             /\ \A j \in 0..Len(data) : WordAt(data, j, MAGIC_START) => j = k)
            => \A x \in Records :
                   Slice(data, k, k + BLOCK_SIZE) = EncodedRecord[x]
                   => (result = "found" /\ offset = k /\ fields = x)

\* C6: every byte index the scan and the decode ask for is below N.
C6_ReadsInBounds == maxRead < Len(data)

\* A block whose build_date slot holds no zero byte has been decoded next
\* to the end of the buffer.
C6_Witness ==
    /\ result = "found"
    /\ offset + BLOCK_SIZE + 1 = Len(data)
    /\ RunLen(data, offset + BUILD_DATE_AT, BUILD_DATE_LEN) = BUILD_DATE_LEN
    /\ maxRead = offset + BLOCK_SIZE - 1

\* C7 as stated: each decoded text is, byte for byte, the maximal run of
\* non-zero bytes of its slot.
C7_TextIsTheRun ==
    result = "found" =>
        /\ Utf8Encode(fields.env_name)
               = RunBytes(data, offset + ENV_NAME_AT, ENV_NAME_LEN)
        /\ Utf8Encode(fields.device_type)
               = RunBytes(data, offset + DEVICE_TYPE_AT, DEVICE_TYPE_LEN)
        /\ Utf8Encode(fields.build_date)
               = RunBytes(data, offset + BUILD_DATE_AT, BUILD_DATE_LEN)

\* C7 as amended: each decoded text is the UTF-8 decoding, with the bytes
\* that are no UTF-8 text dropped, of exactly the maximal run of non-zero
\* bytes that starts at the slot's first byte, cut at the slot's capacity.
C7_TextIsTheRunDecoded ==
    result = "found" =>
        /\ fields.env_name = Utf8DecodeIgnore(
               RunBytes(data, offset + ENV_NAME_AT, ENV_NAME_LEN))
        /\ fields.device_type = Utf8DecodeIgnore(
               RunBytes(data, offset + DEVICE_TYPE_AT, DEVICE_TYPE_LEN))
        /\ fields.build_date = Utf8DecodeIgnore(
               RunBytes(data, offset + BUILD_DATE_AT, BUILD_DATE_LEN))

\* A decoded block with non-zero bytes after the terminator of
\* environment_name, a device_type slot whose first byte is zero, and a
\* build_date run that holds a byte that is no UTF-8 text.
C7_Witness ==
    /\ result = "found"
    /\ LET n == RunLen(data, offset + ENV_NAME_AT, ENV_NAME_LEN)
       IN  n < ENV_NAME_LEN - 1 /\ At(data, offset + ENV_NAME_AT + n + 1) # 0
    /\ At(data, offset + DEVICE_TYPE_AT) = 0
    /\ fields.device_type = <<>>
    /\ Utf8Encode(fields.build_date)
           # RunBytes(data, offset + BUILD_DATE_AT, BUILD_DATE_LEN)

\* C8: the decoded version numbers are the unsigned bytes at block offsets
\* 52, 53 and 54, and whether a block is found is decided by the markers at
\* the scanned offsets alone, never by a version byte.
C8_VersionBytesVerbatim ==
    /\ result = "found" =>
          /\ fields.version_major = At(data, offset + VERSION_MAJOR_AT)
          /\ fields.version_minor = At(data, offset + VERSION_MINOR_AT)
          /\ fields.version_patch = At(data, offset + VERSION_PATCH_AT)
          /\ fields.version_major \in 0..255
          /\ fields.version_minor \in 0..255
          /\ fields.version_patch \in 0..255
    /\ pc = "done" =>
          (result = "found" <=>
              \E k \in ValidOffsets(data) : k < Len(data) - BLOCK_SIZE)

\* A block with version bytes 0 and 255 has been decoded.
C8_Witness ==
    /\ result = "found"
    /\ fields.version_major = 0
    /\ fields.version_minor = 255

\* C9: no run raises; the loop variable stays within the candidate range,
\* which bounds the run; and a run that is over has returned True with an
\* offset and fields, or False with neither.
C9_NotFoundIsNormal ==
    /\ pc # "raised"
    /\ i >= 0 /\ i <= Max(0, Len(data) - BLOCK_SIZE)
    /\ pc = "done" =>
          \/ result = "found" /\ offset \in Candidates(data) /\ fields # NoFields
          \/ result = "notfound" /\ offset = -1 /\ fields = NoFields

\* A buffer of a block's length or more that holds a start marker has been
\* scanned to the end without a match.
C9_Witness ==
    /\ pc = "done"
    /\ result = "notfound"
    /\ Len(data) >= BLOCK_SIZE
    /\ \E k \in Candidates(data) : WordAt(data, k, MAGIC_START)

\* C10 as stated: the run over the patched image ends as the run over the
\* image did: same outcome, same offset, same fields.
C10_ReservedIgnored ==
    (pc = "done" /\ prev # NoRun) =>
        /\ result = prev.result
        /\ offset = prev.offset
        /\ fields = prev.fields

\* C10 as amended: the run over the patched image finds a block too; it
\* reports the same offset and the same fields, unless the patched bytes
\* complete the end marker of a start marker at a lower offset, and then it
\* reports that lower offset.
C10_ReservedIgnoredAtSameOffset ==
    (pc = "done" /\ prev # NoRun) =>
        /\ result = "found"
        /\ offset <= prev.offset
        /\ offset = prev.offset => fields = prev.fields
        /\ offset < prev.offset =>
              /\ WordAt(data, offset, MAGIC_START)
              /\ prev.offset - offset \in
                    ((END_MARKER_AT - RESERVED_BYTE_AT)
                         ..(END_MARKER_AT + 3 - RESERVED_BYTE_AT))
                    \cup ((END_MARKER_AT - (RESERVED_AT + RESERVED_LEN - 1))
                              ..(END_MARKER_AT + 3 - RESERVED_AT))

\* A block whose build_date slot holds no zero byte was located, its
\* reserved bytes were patched, and the run over the patched image is over.
C10_Witness ==
    /\ pc = "done"
    /\ prev # NoRun
    /\ offset = prev.offset
    /\ RunLen(data, offset + BUILD_DATE_AT, BUILD_DATE_LEN) = BUILD_DATE_LEN

(***************************************************************************)
(* version_firmware.py: get_version_from_flags and rename_firmware.        *)
(* A string is a sequence of one-character strings.                        *)
(***************************************************************************)
\* sub occurs in s at position p (from 1).
OccursAt(s, p, sub) ==
    /\ p + Len(sub) - 1 <= Len(s)
    /\ SubSeq(s, p, p + Len(sub) - 1) = sub

\* sub in s
Contains(s, sub) == \E p \in 1..Len(s) : OccursAt(s, p, sub)

DigitChars == {"0", "1", "2", "3", "4", "5", "6", "7", "8", "9"}

\* The end of the longest run of digits that starts at position p.
RECURSIVE DigitRunEnd(_, _)
DigitRunEnd(s, p) ==
    IF p + 1 <= Len(s) /\ s[p + 1] \in DigitChars
    THEN DigitRunEnd(s, p + 1) ELSE p

None == [some |-> FALSE, str |-> <<>>]
Some(t) == [some |-> TRUE, str |-> t]

\* bool(v) for v None or a str.
Truthy(v) == v.some /\ v.str # <<>>

\* re.search(key + r'(\d+)', s): the leftmost place where key is followed
\* by a digit, and there group(1), the longest run of digits; else None.
ReSearchDigits(key, s) ==
    LET hits == {p \in 1..Len(s) :
                    /\ OccursAt(s, p, key)
                    /\ p + Len(key) <= Len(s)
                    /\ s[p + Len(key)] \in DigitChars}
        first == CHOOSE p \in hits : \A q \in hits : p <= q
    IN  IF hits = {} THEN None
        ELSE Some(SubSeq(s, first + Len(key),
                         DigitRunEnd(s, first + Len(key))))

MAJOR_KEY == <<"F", "W", "_", "V", "E", "R", "S", "I", "O", "N", "_", "M",
      "A", "J", "O", "R", "=">>
MINOR_KEY == <<"F", "W", "_", "V", "E", "R", "S", "I", "O", "N", "_", "M",
      "I", "N", "O", "R", "=">>
PATCH_KEY == <<"F", "W", "_", "V", "E", "R", "S", "I", "O", "N", "_", "P",
      "A", "T", "C", "H", "=">>

\* Lines 28-46: the body of the loop for one flag.
ScanFlag(v, flag_str) ==
    IF Contains(flag_str, MAJOR_KEY)
    THEN IF ReSearchDigits(MAJOR_KEY, flag_str).some
         THEN [v EXCEPT !.major = ReSearchDigits(MAJOR_KEY, flag_str)]
         ELSE v
    ELSE IF Contains(flag_str, MINOR_KEY)
    THEN IF ReSearchDigits(MINOR_KEY, flag_str).some
         THEN [v EXCEPT !.minor = ReSearchDigits(MINOR_KEY, flag_str)]
         ELSE v
    ELSE IF Contains(flag_str, PATCH_KEY)
    THEN IF ReSearchDigits(PATCH_KEY, flag_str).some
         THEN [v EXCEPT !.patch = ReSearchDigits(PATCH_KEY, flag_str)]
         ELSE v
    ELSE v

\* posixpath: the position of the last c in s, 0 if there is none.
RFind(s, c) ==
    LET at == {p \in 1..Len(s) : s[p] = c}
    IN  IF at = {} THEN 0 ELSE CHOOSE p \in at : \A q \in at : q <= p

RECURSIVE RStrip(_, _)
RStrip(s, c) ==
    IF s # <<>> /\ s[Len(s)] = c THEN RStrip(SubSeq(s, 1, Len(s) - 1), c)
    ELSE s

\* os.path.dirname
dirname(path) ==
    LET head == SubSeq(path, 1, RFind(path, "/"))
    IN  IF head # <<>> /\ head # [j \in 1..Len(head) |-> "/"]
        THEN RStrip(head, "/") ELSE head

\* os.path.basename
basename(path) == SubSeq(path, RFind(path, "/") + 1, Len(path))

\* os.path.splitext(name)[1]: from the last dot, unless only dots come
\* before it in the name.
splitext_ext(name) ==
    LET dot == RFind(name, ".")
        sep == RFind(name, "/")
    IN  IF dot > sep /\ \E k \in (sep + 1)..(dot - 1) : name[k] # "."
        THEN SubSeq(name, dot, Len(name)) ELSE <<>>

\* os.path.join(a, b)
join(a, b) ==
    IF b # <<>> /\ b[1] = "/" THEN b
    ELSE IF a = <<>> \/ a[Len(a)] = "/" THEN a \o b
    ELSE a \o <<"/">> \o b

\* env.get('PIOENV', 'unknown'), line 69
UNKNOWN == <<"u", "n", "k", "n", "o", "w", "n">>
EnvName(e) == IF e.some THEN e.str ELSE UNKNOWN

\* Line 77: the f-string.
versioned_name(e, v, name) ==
    EnvName(e) \o <<"_", "f", "w", "_">> \o v.major.str \o <<"_">>
    \o v.minor.str \o <<"_">> \o v.patch.str \o splitext_ext(name)

\* Lines 72-78.
versioned_path(e, v, src) ==
    join(dirname(src), versioned_name(e, v, basename(src)))

\* The builds rename_firmware is run after.
MaxFlags == 3     \* BUILD_FLAGS holds at most MaxFlags strings

\* The text after "=": 0, 12, and -1 (no digit follows the "=").
FlagValues == {<<"0">>, <<"1", "2">>, <<"-", "1">>}

\* "-D <key><value>"
Define(key, val) == <<"-", "D", " ">> \o key \o val

\* One line of build_flags that sets all three: "-D FW_VERSION_MAJOR=1
\* -D FW_VERSION_MINOR=0 -D FW_VERSION_PATCH=0".
OneLineFlags ==
    Define(MAJOR_KEY, <<"1">>) \o <<" ">> \o Define(MINOR_KEY, <<"0">>)
    \o <<" ">> \o Define(PATCH_KEY, <<"0">>)

FlagStrings ==
    {Define(k, v) : k \in {MAJOR_KEY, MINOR_KEY, PATCH_KEY}, v \in FlagValues}
    \cup {<<"-", "W", "a", "l", "l">>, OneLineFlags}

FlagLists == UNION {[1..n -> FlagStrings] : n \in 0..MaxFlags}

\* "build/firmware.bin", "build/firmware.elf", and "firmware"
Targets ==
    {<<"b", "u", "i", "l", "d", "/", "f", "i", "r", "m", "w", "a", "r",
       "e", ".", "b", "i", "n">>,
     <<"b", "u", "i", "l", "d", "/", "f", "i", "r", "m", "w", "a", "r",
       "e", ".", "e", "l", "f">>,
     <<"f", "i", "r", "m", "w", "a", "r", "e">>}

EnvNames == {Some(<<"r", "x">>), None}

\* Lines 21-25 and 54: rename_firmware(source, target, env) is called.
InitRename ==
    /\ build_flags \in FlagLists
    /\ target \in Targets
    /\ pioenv \in EnvNames
    /\ \E built \in BOOLEAN :
          files = [f \in (IF built THEN {target} ELSE {}) |-> "image"]
    /\ version = [major |-> None, minor |-> None, patch |-> None]
    /\ flagIdx = 1
    /\ copied = NoPath
    /\ rpc = "flags"
    /\ ScanOff
    /\ TzOff

\* Lines 27-46: one turn of the loop over the flags.
GetVersionStep ==
    /\ rpc = "flags"
    /\ flagIdx <= Len(build_flags)
    /\ version' = ScanFlag(version, build_flags[flagIdx])
    /\ flagIdx' = flagIdx + 1
    /\ UNCHANGED <<build_flags, target, pioenv, files, copied, rpc>>
    /\ UNCHANGED <<scanVars, tzVars>>

\* Line 48: the loop is over, get_version_from_flags returns.
GetVersionReturn ==
    /\ rpc = "flags"
    /\ flagIdx > Len(build_flags)
    /\ rpc' = "check"
    /\ UNCHANGED <<build_flags, target, pioenv, files, version, flagIdx, copied>>
    /\ UNCHANGED <<scanVars, tzVars>>

\* all([version['major'], version['minor'], version['patch']]), line 56
AllVersions(v) == Truthy(v.major) /\ Truthy(v.minor) /\ Truthy(v.patch)

\* Lines 56-59: a version number is missing; warn and return.
RenameMissing ==
    /\ rpc = "check"
    /\ ~AllVersions(version)
    /\ rpc' = "done"
    /\ UNCHANGED <<build_flags, target, pioenv, files, version, flagIdx, copied>>
    /\ UNCHANGED <<scanVars, tzVars>>

\* Lines 62-66: the built file does not exist; warn and return.
RenameNoFile ==
    /\ rpc = "check"
    /\ AllVersions(version)
    /\ target \notin DOMAIN files
    /\ rpc' = "done"
    /\ UNCHANGED <<build_flags, target, pioenv, files, version, flagIdx, copied>>
    /\ UNCHANGED <<scanVars, tzVars>>

\* Lines 68-86: shutil.copy2(firmware_source, versioned_path).  copy2 raises
\* SameFileError when both paths are the same file; the except clause
\* prints the error and nothing is written.
RenameCopy ==
    /\ rpc = "check"
    /\ AllVersions(version)
    /\ target \in DOMAIN files
    /\ IF versioned_path(pioenv, version, target) = target
       THEN files' = files /\ copied' = copied
       ELSE /\ files' = [f \in DOMAIN files
                                \cup {versioned_path(pioenv, version, target)}
                            |-> files[target]]
            /\ copied' = versioned_path(pioenv, version, target)
    /\ rpc' = "done"
    /\ UNCHANGED <<build_flags, target, pioenv, version, flagIdx>>
    /\ UNCHANGED <<scanVars, tzVars>>

NextRename ==
    \/ GetVersionStep
    \/ GetVersionReturn
    \/ RenameMissing
    \/ RenameNoFile
    \/ RenameCopy

SpecRename == InitRename /\ [][NextRename]_vars

\* A flag string sets the key: the key is followed by a non-negative integer.
Sets(flag_str, key) == ReSearchDigits(key, flag_str).some

\* The key is set somewhere in the build flags.
InFlags(key) == \E k \in 1..Len(build_flags) : Sets(build_flags[k], key)

\* C11: when rename_firmware has returned, a copy has been made if and only
\* if FW_VERSION_MAJOR, FW_VERSION_MINOR and FW_VERSION_PATCH are all set
\* to a non-negative integer in the build flags and the built file exists;
\* the copy lies in the directory of the built file, is named
\* <env>_fw_<major>_<minor>_<patch><extension>, and the built file is still
\* there; otherwise no file has been created.
C11_CopyIffVersionsAndFile ==
    rpc = "done" =>
        /\ copied # NoPath <=>
              /\ InFlags(MAJOR_KEY)
              /\ InFlags(MINOR_KEY)
              /\ InFlags(PATCH_KEY)
              /\ target \in DOMAIN files
        /\ copied # NoPath =>
              /\ DOMAIN files = {target, copied}
              /\ files[copied] = files[target]
              /\ dirname(copied) = dirname(target)
              /\ basename(copied) =
                    versioned_name(pioenv, version, basename(target))
        /\ copied = NoPath => DOMAIN files \subseteq {target}

\* ---------------------------------------------------------------------
\* timezonetest.py: generate_posix_tz.

\* str(n) for an integer n
RECURSIVE NatToStr(_)
NatToStr(n) ==
    IF n < 10
    THEN <<<<"0", "1", "2", "3", "4", "5", "6", "7", "8", "9">>[n + 1]>>
    ELSE NatToStr(n \div 10) \o NatToStr(n % 10)

IntToStr(n) == IF n < 0 THEN <<"-">> \o NatToStr(-n) ELSE NatToStr(n)

abs(n) == IF n < 0 THEN -n ELSE n

\* data.get(key, default)
Get(d, key, default) == IF key \in d.has THEN d[key] ELSE default

\* not data: None and the empty dict
Falsy(d) == d.none \/ d.has = {}

\* Lines 138-147: the abbreviation followed by the offset.  // and % round
\* towards minus infinity, as \div and % do.
BasePosix(abbr, utc_offset) ==
    LET offset_hours == utc_offset \div 3600
        offset_mins == abs(utc_offset % 3600) \div 60
    IN  IF utc_offset = 0
        THEN abbr \o <<"0">>
        ELSE abbr \o IntToStr(-offset_hours)
                  \o (IF offset_mins > 0
                      THEN <<":">> \o IntToStr(offset_mins)
                      ELSE <<>>)

LONDON == <<"L", "o", "n", "d", "o", "n">>
EUROPE_LONDON ==
    <<"E", "u", "r", "o", "p", "e", "/", "L", "o", "n", "d", "o", "n">>
EUROPE == <<"E", "u", "r", "o", "p", "e">>
GMT == <<"G", "M", "T">>
BST == <<"B", "S", "T">>
UTC == <<"U", "T", "C">>

\* "BST-1,M3.5.0/1,M10.5.0/2"
UK_RULES ==
    <<"B", "S", "T", "-", "1", ",", "M", "3", ".", "5", ".", "0", "/", "1",
      ",", "M", "1", "0", ".", "5", ".", "0", "/", "2">>

\* "CEST-2,M3.5.0/2,M10.5.0/3"
EU_RULES ==
    <<"C", "E", "S", "T", "-", "2", ",", "M", "3", ".", "5", ".", "0", "/",
      "2", ",", "M", "1", "0", ".", "5", ".", "0", "/", "3">>

\* Line 154
IsUK(tz_name, abbr) ==
    \/ Contains(tz_name, LONDON)
    \/ Contains(tz_name, EUROPE_LONDON)
    \/ abbr \in {GMT, BST}

\* Line 158
IsEU(tz_name) == Contains(tz_name, EUROPE) /\ ~Contains(tz_name, LONDON)

\* The replies generate_posix_tz is given.
MaxQuarters == 56     \* utc_offset is within MaxQuarters quarter hours of 0

Offsets == {q * 15 * 60 : q \in (-MaxQuarters)..MaxQuarters}

\* "Europe/London", "Europe/Paris", "Asia/Kolkata"
TzNames ==
    {EUROPE_LONDON,
     <<"E", "u", "r", "o", "p", "e", "/", "P", "a", "r", "i", "s">>,
     <<"A", "s", "i", "a", "/", "K", "o", "l", "k", "a", "t", "a">>}

Abbreviations == {GMT, <<"C", "E", "T">>, <<"I", "S", "T">>}

TzKeys == {"timezone", "abbreviation", "utc_offset"}

\* A dict with the keys in has; a key that is absent has no value to speak
\* of, and holds what data.get falls back to.
Dict(has, tz, ab, off) ==
    [none |-> FALSE, has |-> has,
     timezone |-> IF "timezone" \in has THEN tz ELSE <<>>,
     abbreviation |-> IF "abbreviation" \in has THEN ab ELSE UTC,
     utc_offset |-> IF "utc_offset" \in has THEN off ELSE 0]

Replies ==
    {Dict(has, tz, ab, off) :
        has \in SUBSET TzKeys, tz \in TzNames, ab \in Abbreviations,
        off \in Offsets}
    \cup {NoData}

\* Line 124: generate_posix_tz(data) is called.
InitTz ==
    /\ tz_data \in Replies
    /\ posix = <<>>
    /\ base = <<>>
    /\ tpc = "start"
    /\ ScanOff
    /\ RenameOff

\* Lines 128-130: no data, return None.
TzNoData ==
    /\ tpc = "start"
    /\ Falsy(tz_data)
    /\ tpc' = "none"
    /\ UNCHANGED <<tz_data, posix, base>>
    /\ UNCHANGED <<scanVars, renameVars>>

\* Lines 132-149: the base POSIX string.
TzBase ==
    /\ tpc = "start"
    /\ ~Falsy(tz_data)
    /\ posix' = BasePosix(Get(tz_data, "abbreviation", UTC),
                          Get(tz_data, "utc_offset", 0))
    /\ base' = posix'
    /\ tpc' = "dst"
    /\ UNCHANGED tz_data
    /\ UNCHANGED <<scanVars, renameVars>>

\* Lines 154-157 and 167: the UK rules.
TzDstUK ==
    /\ tpc = "dst"
    /\ IsUK(Get(tz_data, "timezone", <<>>), Get(tz_data, "abbreviation", UTC))
    /\ posix' = posix \o UK_RULES
    /\ tpc' = "done"
    /\ UNCHANGED <<tz_data, base>>
    /\ UNCHANGED <<scanVars, renameVars>>

\* Lines 158-161 and 167: the EU rules.
TzDstEU ==
    /\ tpc = "dst"
    /\ ~IsUK(Get(tz_data, "timezone", <<>>), Get(tz_data, "abbreviation", UTC))
    /\ IsEU(Get(tz_data, "timezone", <<>>))
    /\ posix' = posix \o EU_RULES
    /\ tpc' = "done"
    /\ UNCHANGED <<tz_data, base>>
    /\ UNCHANGED <<scanVars, renameVars>>

\* Lines 163-167: no DST rules.
TzNoDst ==
    /\ tpc = "dst"
    /\ ~IsUK(Get(tz_data, "timezone", <<>>), Get(tz_data, "abbreviation", UTC))
    /\ ~IsEU(Get(tz_data, "timezone", <<>>))
    /\ tpc' = "done"
    /\ UNCHANGED <<tz_data, posix, base>>
    /\ UNCHANGED <<scanVars, renameVars>>

NextTz ==
    \/ TzNoData
    \/ TzBase
    \/ TzDstUK
    \/ TzDstEU
    \/ TzNoDst

SpecTz == InitTz /\ [][NextTz]_vars

\* Reading [-]hours[:minutes] as POSIX TZ does.
RECURSIVE StrToNat(_)
StrToNat(t) ==
    IF t = <<>> THEN 0
    ELSE StrToNat(SubSeq(t, 1, Len(t) - 1)) * 10
         + (CHOOSE d \in 0..9 : NatToStr(d) = <<t[Len(t)]>>)

\* The position of the first ":" in t, or Len(t) + 1.
ColonAt(t) ==
    IF \E p \in 1..Len(t) : t[p] = ":"
    THEN CHOOSE p \in 1..Len(t) : t[p] = ":" /\ \A q \in 1..(p - 1) : t[q] # ":"
    ELSE Len(t) + 1

\* The seconds that [-]hours[:minutes] denotes: the sign applies to both.
Denotes(t) ==
    LET neg == t # <<>> /\ t[1] = "-"
        u == IF neg THEN Tail(t) ELSE t
        hours == StrToNat(SubSeq(u, 1, ColonAt(u) - 1))
        minutes == StrToNat(SubSeq(u, ColonAt(u) + 1, Len(u)))
    IN  (IF neg THEN -1 ELSE 1) * (hours * 3600 + minutes * 60)

\* What follows the abbreviation in the base POSIX string.
AfterAbbr ==
    SubSeq(base, Len(Get(tz_data, "abbreviation", UTC)) + 1, Len(base))

\* C12: once the base POSIX string is written, the hours[:minutes] after
\* the abbreviation denote exactly -utc_offset, and a utc_offset of 0
\* gives "0".
C12_OffsetSignInverted ==
    tpc \in {"dst", "done"} =>
        /\ Denotes(AfterAbbr) = -Get(tz_data, "utc_offset", 0)
        /\ Get(tz_data, "utc_offset", 0) = 0 => AfterAbbr = <<"0">>

====
